---- MODULE Spec2Model ----
(***************************************************************************)
(* Ride price comparison agent: ride_agent.py (quote aggregation engine,   *)
(* CLI) and app.py (HTTP text endpoint).                                   *)
(*                                                                         *)
(* Representation.  Python str values that the code inspects character by  *)
(* character (vehicle_need, ride_type, provider) are sequences of          *)
(* one-character strings.  Optional[T] is a sequence of length 0 (None)    *)
(* or 1.  Prices are integer cents (22.50 -> 2250): every price the        *)
(* program handles is a multiple of 0.25, exact in binary floating point.  *)
(* Rendered text is a sequence of lines, a line a sequence of tokens: a    *)
(* token is one character, a blank-free literal word, or an opaque value   *)
(* (a place name, a currency code, a note).                                *)
(***************************************************************************)
EXTENDS Integers, Sequences, FiniteSets, TLC

VARIABLES
    creds,       \* module-level credential strings, read once at import
    pc,          \* position of the single thread of control
    entry,       \* caller of get_best_ride: "cli" (main), "http" (format_text), "api"
    args,        \* the RideRequest as the caller created it
    req,         \* the RideRequest object get_best_ride holds
    use_mock,    \* use_mock_if_needed
    start,       \* Optional[LatLng] of req.pickup
    end,         \* Optional[LatLng] of req.dropoff
    quotes,      \* local list `quotes` of get_best_ride
    working,     \* the list as it stood when step 3 examined it
    lyft_ret,    \* what get_lyft_quotes returned, and by which return statement
    uber_ret,    \* what get_uber_quotes returned, and by which return statement
    cheapest,    \* Optional[Quote]
    result,      \* Optional[QuoteResult] returned by get_best_ride
    err,         \* class of the exception in flight or surfaced, "None" if none
    out,         \* lines written to stdout (cli) or returned as the body (http)
    trace,       \* calls made by the current get_best_ride run, in order
    prev,        \* inputs and outputs of the latest earlier run that returned
    calls_left   \* invocations still to be started

vars == <<creds, pc, entry, args, req, use_mock, start, end, quotes, working,
          lyft_ret, uber_ret, cheapest, result, err, out, trace, prev, calls_left>>

----------------------------------------------------------------------------
(* Bounds *)

MaxCalls == 2      \* invocations in one process lifetime
MaxStub == 3       \* quotes the two stubbed adapters return in total
MaxNeedLen == 3    \* length of the generated vehicle_need strings

----------------------------------------------------------------------------
(* Optional values and generic sequence helpers *)

None == <<>>
Some(x) == <<x>>
IsNone(o) == o = <<>>
Val(o) == o[1]

Range(s) == {s[i] : i \in 1..Len(s)}

SeqsUpTo(S, n) == UNION {[1..k -> S] : k \in 0..n}

----------------------------------------------------------------------------
(* Python str operations, on sequences of characters *)

UPPER == <<"A","B","C","D","E","F","G","H","I","J","K","L","M",
           "N","O","P","Q","R","S","T","U","V","W","X","Y","Z">>
LOWER == <<"a","b","c","d","e","f","g","h","i","j","k","l","m",
           "n","o","p","q","r","s","t","u","v","w","x","y","z">>
DIGITS == <<"0","1","2","3","4","5","6","7","8","9">>
WHITESPACE == {" ", "\t", "\n"}

lower_char(c) ==
    IF \E i \in 1..Len(UPPER) : UPPER[i] = c
    THEN LOWER[CHOOSE i \in 1..Len(UPPER) : UPPER[i] = c]
    ELSE c

upper_char(c) ==
    IF \E i \in 1..Len(LOWER) : LOWER[i] = c
    THEN UPPER[CHOOSE i \in 1..Len(LOWER) : LOWER[i] = c]
    ELSE c

str_lower(s) == [i \in 1..Len(s) |-> lower_char(s[i])]
str_upper(s) == [i \in 1..Len(s) |-> upper_char(s[i])]

RECURSIVE str_lstrip(_)
str_lstrip(s) ==
    IF s # <<>> /\ Head(s) \in WHITESPACE THEN str_lstrip(Tail(s)) ELSE s

RECURSIVE str_rstrip(_)
str_rstrip(s) ==
    IF s # <<>> /\ s[Len(s)] \in WHITESPACE
    THEN str_rstrip(SubSeq(s, 1, Len(s) - 1))
    ELSE s

str_strip(s) == str_rstrip(str_lstrip(s))

\* s.replace(old, new): every non-overlapping occurrence, left to right.
RECURSIVE str_replace(_, _, _)
str_replace(s, old, new) ==
    IF Len(s) < Len(old) THEN s
    ELSE IF SubSeq(s, 1, Len(old)) = old
         THEN new \o str_replace(SubSeq(s, Len(old) + 1, Len(s)), old, new)
         ELSE <<Head(s)>> \o str_replace(Tail(s), old, new)

str_contains(s, sub) ==
    \E i \in 1..(Len(s) + 1) :
        /\ i + Len(sub) - 1 <= Len(s)
        /\ SubSeq(s, i, i + Len(sub) - 1) = sub

\* format(s, "<n"): left-justified to width n, never truncated.
str_ljust(s, n) == s \o [i \in 1..(IF n > Len(s) THEN n - Len(s) ELSE 0) |-> " "]

RECURSIVE int_str(_)
int_str(n) ==
    IF n < 10 THEN <<DIGITS[n + 1]>>
    ELSE int_str(n \div 10) \o <<DIGITS[(n % 10) + 1]>>

\* f"{x:.2f}" of a price of c cents.
fmt_2f(c) ==
    int_str(c \div 100) \o <<".">> \o <<DIGITS[((c % 100) \div 10) + 1], DIGITS[(c % 10) + 1]>>

----------------------------------------------------------------------------
(* String literals of the source *)

S_mock == <<"m","o","c","k">>
S_lyft == <<"l","y","f","t">>
S_uber == <<"u","b","e","r">>
S_paren_mock == <<"(","m","o","c","k",")">>
S_xl_paren_mock == <<"X","L"," ">> \o S_paren_mock
S_uberx_mock == <<"U","b","e","r","X"," ">> \o S_paren_mock
S_lyft_mock == <<"L","y","f","t"," ">> \o S_paren_mock
S_cheapest == <<"c","h","e","a","p","e","s","t">>
S_xl == <<"x","l">>
S_6_seats == <<"6"," ","s","e","a","t","s">>
S_6dash_seats == <<"6","-","s","e","a","t","s">>
S_suv == <<"s","u","v">>

----------------------------------------------------------------------------
(* Models (ride_agent.py 32-53) *)

LatLng(lat, lng) == [lat |-> lat, lng |-> lng]

RideRequest(pickup, dropoff, vehicle_need) ==
    [pickup |-> pickup, dropoff |-> dropoff, vehicle_need |-> vehicle_need]

Quote(provider, ride_type, price_low, price_high, eta_minutes, notes) ==
    [provider |-> provider, ride_type |-> ride_type, price_low |-> price_low,
     price_high |-> price_high, currency |-> "USD", eta_minutes |-> eta_minutes,
     notes |-> notes]

QuoteResult(r, qs, c) == [request |-> r, quotes |-> qs, cheapest |-> c]

----------------------------------------------------------------------------
(* pick_cheapest *)

priced_of(qs) == SelectSeq(qs, LAMBDA q : ~IsNone(q.price_low))

\* min(priced, key=...): a left-to-right scan that keeps the first smallest.
RECURSIVE min_scan(_, _)
min_scan(best, rest) ==
    IF rest = <<>> THEN best
    ELSE IF Val(Head(rest).price_low) < Val(best.price_low)
         THEN min_scan(Head(rest), Tail(rest))
         ELSE min_scan(best, Tail(rest))

\* Mutant: the scan keeps the last smallest.
RECURSIVE min_scan_last(_, _)
min_scan_last(best, rest) ==
    IF rest = <<>> THEN best
    ELSE IF Val(Head(rest).price_low) <= Val(best.price_low)
         THEN min_scan_last(Head(rest), Tail(rest))
         ELSE min_scan_last(best, Tail(rest))

pick_cheapest_last(qs) ==
    LET priced == priced_of(qs)
    IN  IF priced # <<>> THEN Some(min_scan_last(Head(priced), Tail(priced))) ELSE None

\* Mutant: the largest low estimate is selected.
RECURSIVE max_scan(_, _)
max_scan(best, rest) ==
    IF rest = <<>> THEN best
    ELSE IF Val(Head(rest).price_low) > Val(best.price_low)
         THEN max_scan(Head(rest), Tail(rest))
         ELSE max_scan(best, Tail(rest))

pick_cheapest_max(qs) ==
    LET priced == priced_of(qs)
    IN  IF priced # <<>> THEN Some(max_scan(Head(priced), Tail(priced))) ELSE None

pick_cheapest(qs) ==
    LET priced == priced_of(qs)
    IN  IF priced # <<>> THEN Some(min_scan(Head(priced), Tail(priced))) ELSE None

----------------------------------------------------------------------------
(* geocode_nominatim *)

Coords == {LatLng(4198, -8790), LatLng(4189, -8760)}

\* What the lookup service does with one request.
Responses ==
    {[kind |-> "timeout"], [kind |-> "http_error"], [kind |-> "empty"]}
    \cup {[kind |-> "match", at |-> c] : c \in Coords}

\* Mutant: the empty-list check is missing, so data[0] raises IndexError.
geocode_nominatim_unchecked(place, resp) ==
    CASE resp.kind = "timeout" -> [raised |-> "RequestException", value |-> None]
      [] resp.kind = "http_error" -> [raised |-> "HTTPError", value |-> None]
      [] resp.kind = "empty" -> [raised |-> "IndexError", value |-> None]
      [] OTHER -> [raised |-> "None", value |-> Some(resp.at)]

\* [raised |-> exception class or "None", value |-> Optional[LatLng]]
geocode_nominatim(place, resp) ==
    CASE resp.kind = "timeout" -> [raised |-> "RequestException", value |-> None]
      [] resp.kind = "http_error" -> [raised |-> "HTTPError", value |-> None]
      [] resp.kind = "empty" -> [raised |-> "RuntimeError", value |-> None]
      [] OTHER -> [raised |-> "None", value |-> Some(resp.at)]

----------------------------------------------------------------------------
(* Provider hooks *)

Truthy(s) == s # ""

\* Mutant: Lyft counts as configured when either secret is present.
lyft_configured_either == Truthy(creds.LYFT_CLIENT_ID) \/ Truthy(creds.LYFT_CLIENT_SECRET)

lyft_configured == Truthy(creds.LYFT_CLIENT_ID) /\ Truthy(creds.LYFT_CLIENT_SECRET)

uber_configured == Truthy(creds.UBER_BEARER_TOKEN) \/ Truthy(creds.UBER_SERVER_TOKEN)

\* [quotes |-> returned list, via |-> the return statement taken, raised |-> ...]
get_lyft_quotes(s, e) ==
    IF ~lyft_configured
    THEN [quotes |-> <<>>, via |-> "unconfigured", raised |-> "None"]
    ELSE [quotes |-> <<>>, via |-> "configured", raised |-> "None"]

get_uber_quotes(s, e) ==
    IF ~uber_configured
    THEN [quotes |-> <<>>, via |-> "unconfigured", raised |-> "None"]
    ELSE [quotes |-> <<>>, via |-> "configured", raised |-> "None"]

NoCall == [quotes |-> <<>>, via |-> "-", raised |-> "None"]

----------------------------------------------------------------------------
(* get_mock_quotes *)

XL_NEEDS == {S_xl, S_6_seats, S_6dash_seats, S_suv}

fresh_base ==
    << Quote(S_mock, S_uberx_mock, Some(2250), Some(2400), Some(6), None),
       Quote(S_mock, S_lyft_mock, Some(1975), Some(2300), Some(7), None) >>

\* Mutant: the list is one module-level object, so the quotes a previous
\* call adjusted are the ones the next call starts from.
mock_base_shared ==
    IF ~IsNone(prev) /\ Val(prev).quotes # <<>> THEN Val(prev).quotes ELSE fresh_base

mock_base == fresh_base

\* Mutant: the comparison is made without strip().
needs_xl_nostrip(r) == str_lower(r.vehicle_need) \in XL_NEEDS

needs_xl(r) == str_lower(str_strip(r.vehicle_need)) \in XL_NEEDS

xl_adjust(q) ==
    [q EXCEPT !.ride_type = str_replace(q.ride_type, S_paren_mock, S_xl_paren_mock),
              !.price_low = IF IsNone(q.price_low) THEN None ELSE Some(Val(q.price_low) + 1000),
              !.price_high = IF IsNone(q.price_high) THEN None ELSE Some(Val(q.price_high) + 1200)]

get_mock_quotes(r) ==
    IF needs_xl(r)
    THEN [i \in 1..Len(mock_base) |-> xl_adjust(mock_base[i])]
    ELSE mock_base

----------------------------------------------------------------------------
(* Rendering.  Tokens for the non-ASCII characters of the source:          *)
(* "{en-dash}" U+2013, "{em-dash}" U+2014, "{check}" U+2705,                 *)
(* "{warning}" U+26A0 U+FE0F, "{cross}" U+274C.                              *)

EMOJI == {"{check}", "{warning}", "{cross}"}

rule(n) == [i \in 1..n |-> "="]

quote_hi(q) == IF ~IsNone(q.price_high) THEN fmt_2f(Val(q.price_high)) ELSE <<"?">>

quote_eta(q) ==
    IF ~IsNone(q.eta_minutes) THEN int_str(Val(q.eta_minutes)) \o <<" ", "min">> ELSE <<"?">>

\* Python truthiness of Optional[str]: None and "" are both false.
has_notes(q) == ~IsNone(q.notes) /\ Val(q.notes) # ""

\* ride_agent.py 173-178: one line of print_result per quote.
cli_quote_line(q) ==
    IF IsNone(q.price_low)
    THEN <<"-", " ">> \o str_ljust(str_upper(q.provider), 4) \o <<" ", "|", " ">>
         \o str_ljust(q.ride_type, 20)
         \o <<" ", "|", " ", "not", " ", "available", " ">>
         \o (IF has_notes(q) THEN <<"(", Val(q.notes), ")">> ELSE <<>>)
    ELSE <<"-", " ">> \o str_ljust(str_upper(q.provider), 4) \o <<" ", "|", " ">>
         \o str_ljust(q.ride_type, 20)
         \o <<" ", "|", " ", "$">> \o fmt_2f(Val(q.price_low))
         \o <<"{en-dash}", "$">> \o quote_hi(q)
         \o <<" ", q.currency, " ", "|", " ", "ETA", " ">> \o quote_eta(q)

\* app.py 37-45: one line of format_text per quote.
http_quote_line(q) ==
    IF IsNone(q.price_low)
    THEN <<"-", " ">> \o str_ljust(str_upper(q.provider), 4) \o <<" ", "|", " ">>
         \o q.ride_type
         \o <<" ", "|", " ", "not", " ", "available">>
         \o (IF has_notes(q) THEN <<" ", "(", Val(q.notes), ")">> ELSE <<>>)
    ELSE <<"-", " ">> \o str_ljust(str_upper(q.provider), 4) \o <<" ", "|", " ">>
         \o q.ride_type
         \o <<" ", "|", " ", "$">> \o fmt_2f(Val(q.price_low))
         \o <<"{en-dash}", "$">> \o quote_hi(q)
         \o <<" ", q.currency, " ", "|", " ", "ETA", " ">> \o quote_eta(q)

\* ride_agent.py 182: the text after the leading "\n".
cli_cheapest_line(c) ==
    <<"{check}", " ", "Cheapest", " ", "(by", " ", "low", " ", "estimate):", " ">>
    \o str_upper(c.provider) \o <<" ", "{em-dash}", " ">> \o c.ride_type
    \o <<" ", "at", " ", "$">> \o fmt_2f(Val(c.price_low))

\* Mutant: the summary line shows the high estimate.
http_cheapest_line_high(c) ==
    <<"Cheapest", " ", "(by", " ", "low", " ", "estimate):", " ">>
    \o str_upper(c.provider) \o <<" ", "{em-dash}", " ">> \o c.ride_type
    \o <<" ", "at", " ", "$">> \o quote_hi(c)

\* app.py 50.
http_cheapest_line(c) ==
    <<"Cheapest", " ", "(by", " ", "low", " ", "estimate):", " ">>
    \o str_upper(c.provider) \o <<" ", "{em-dash}", " ">> \o c.ride_type
    \o <<" ", "at", " ", "$">> \o fmt_2f(Val(c.price_low))

\* ride_agent.py 184: the text after the leading "\n".
cli_no_cheapest_line ==
    <<"{warning}", " ", "Could", " ", "not", " ", "determine", " ", "cheapest", " ",
      "(no", " ", "priced", " ", "quotes).">>

no_quotes_line == <<"No", " ", "quotes", " ", "available.">>

\* ride_agent.py 161-166.
cli_head(res) ==
    << <<>>, rule(30), <<"RESULTS">>, rule(30),
       <<"Pickup:", " ", " ", res.request.pickup>>,
       <<"Dropoff:", " ", res.request.dropoff>>,
       <<"Need:", " ", " ", " ", " ">> \o res.request.vehicle_need,
       <<>> >>

\* ride_agent.py 168-184.
cli_body(res) ==
    IF res.quotes = <<>>
    THEN <<no_quotes_line>>
    ELSE [i \in 1..Len(res.quotes) |-> cli_quote_line(res.quotes[i])]
         \o (IF ~IsNone(res.cheapest)
             THEN << <<>>, cli_cheapest_line(Val(res.cheapest)) >>
             ELSE << <<>>, cli_no_cheapest_line >>)

print_result(res) == cli_head(res) \o cli_body(res)

\* app.py 23-29.
http_head(res) ==
    << <<"RIDE", " ", "AGENT", " ", "RESULTS">>, rule(18),
       <<"Pickup:", " ", " ", res.request.pickup>>,
       <<"Dropoff:", " ", res.request.dropoff>>,
       <<"Need:", " ", " ", " ", " ">> \o res.request.vehicle_need,
       <<>> >>

\* app.py 31-52.
http_body(res) ==
    IF res.quotes = <<>>
    THEN <<no_quotes_line>>
    ELSE << <<"Quotes:">> >>
         \o [i \in 1..Len(res.quotes) |-> http_quote_line(res.quotes[i])]
         \o (IF ~IsNone(res.cheapest) /\ ~IsNone(Val(res.cheapest).price_low)
             THEN << <<>>, http_cheapest_line(Val(res.cheapest)) >>
             ELSE <<>>)

format_text_lines(res) == http_head(res) \o http_body(res)

\* ride_agent.py 192: print(f"\n{cross} Error: {type(e).__name__}: {e}")
cli_error_lines(e) == << <<>>, <<"{cross}", " ", "Error:", " ", e, ":", " ", "{message}">> >>

----------------------------------------------------------------------------
(* Inputs *)

\* <<pickup, dropoff>> as typed or posted: non-empty, already trimmed.
TRIPS ==
    { <<"Chicago O'Hare Airport", "Navy Pier, Chicago">>,
      <<"Navy Pier, Chicago", "Chicago O'Hare Airport">> }

\* vehicle_need as typed or posted: "cheapest", "XL", " 6-Seats\t", "lux".
NEED_INPUTS ==
    { S_cheapest,
      <<"X","L">>,
      <<" ","6","-","S","e","a","t","s","\t">>,
      <<"l","u","x">> }

CRED_VALUES == {"", "set"}

\* Quotes a stubbed Lyft adapter may return.
LYFT_STUB_QUOTES ==
    { Quote(S_lyft, <<"L","y","f","t">>, None, None, None, Some("no drivers")),
      Quote(S_lyft, <<"L","y","f","t">>, Some(1500), Some(1800), Some(5), None),
      Quote(S_lyft, <<"L","y","f","t"," ","X","L">>, Some(1500), None, None, None) }

\* Quotes a stubbed Uber adapter may return.
UBER_STUB_QUOTES ==
    { Quote(S_uber, <<"U","b","e","r","X">>, None, None, None, None),
      Quote(S_uber, <<"U","b","e","r","X">>, Some(1500), Some(1700), Some(4), None),
      Quote(S_uber, <<"U","b","e","r"," ","B","l","a","c","k">>, Some(2000), Some(2600), None, None) }

\* vehicle_need values get_mock_quotes is applied to on its own.
MOCK_NEEDS ==
    SeqsUpTo({"x", "X", "l", "L", " ", "\t"}, MaxNeedLen)
    \cup NEED_INPUTS
    \cup { S_xl, S_6_seats, S_6dash_seats, S_suv,
           <<"6","-","S","E","A","T","S">>,
           <<"S","U","V">>,
           <<"\n"," ","S","u","v"," ">>,
           <<"6"," "," ","s","e","a","t","s">>,
           <<"6","s","e","a","t","s">>,
           <<"b","l","a","c","k">>,
           <<"s","u","v","s">>,
           <<"x","-","l">> }

NoRequest == RideRequest("", "", <<>>)

----------------------------------------------------------------------------
(* State machine *)

Init ==
    /\ creds \in [LYFT_CLIENT_ID : CRED_VALUES, LYFT_CLIENT_SECRET : CRED_VALUES,
                  UBER_BEARER_TOKEN : CRED_VALUES, UBER_SERVER_TOKEN : CRED_VALUES]
    /\ pc = "idle"
    /\ entry = "-"
    /\ args = NoRequest
    /\ req = NoRequest
    /\ use_mock = TRUE
    /\ start = None
    /\ end = None
    /\ quotes = <<>>
    /\ working = <<>>
    /\ lyft_ret = NoCall
    /\ uber_ret = NoCall
    /\ cheapest = None
    /\ result = None
    /\ err = "None"
    /\ out = <<>>
    /\ trace = <<>>
    /\ prev = None
    /\ calls_left = MaxCalls

Terminal == {"idle", "done", "failed"}

\* What a later run can be compared with: the latest run that returned.
remember ==
    IF ~IsNone(result)
    THEN Some([vehicle_need |-> args.vehicle_need, use_mock |-> use_mock,
               quotes |-> Val(result).quotes, cheapest |-> Val(result).cheapest])
    ELSE prev

\* Entry into get_best_ride(r, um) from caller e.
Begin(e, r, um) ==
    /\ pc \in Terminal
    /\ calls_left > 0
    /\ calls_left' = calls_left - 1
    /\ prev' = remember
    /\ entry' = e
    /\ args' = r
    /\ req' = r
    /\ use_mock' = um
    /\ start' = None
    /\ end' = None
    /\ quotes' = <<>>
    /\ working' = <<>>
    /\ lyft_ret' = NoCall
    /\ uber_ret' = NoCall
    /\ cheapest' = None
    /\ result' = None
    /\ err' = "None"
    /\ out' = <<>>
    /\ trace' = <<>>
    /\ pc' = "geocode_pickup"
    /\ UNCHANGED creds

\* prompt_user: the answer is stripped, an empty answer becomes "cheapest".
prompt_need(typed) == IF str_strip(typed) = <<>> THEN S_cheapest ELSE str_strip(typed)

\* main: prompt_user(), then get_best_ride(req, use_mock_if_needed=True).
Main ==
    \E t \in TRIPS, typed \in NEED_INPUTS \cup {<<>>} :
        Begin("cli", RideRequest(t[1], t[2], prompt_need(typed)), TRUE)

\* run_text / run_text_get -> format_text: RideRequest(...), get_best_ride(req, True).
RunText ==
    \E t \in TRIPS, n \in NEED_INPUTS :
        Begin("http", RideRequest(t[1], t[2], n), TRUE)

\* A direct call of get_best_ride(req, use_mock_if_needed).
ApiCall ==
    \E t \in TRIPS, n \in NEED_INPUTS, um \in BOOLEAN :
        Begin("api", RideRequest(t[1], t[2], n), um)

\* Where an exception leaving get_best_ride goes: main's except clause, or out
\* of format_text / to the direct caller.
raise_to == IF entry = "cli" THEN "except" ELSE "failed"

\* ride_agent.py 122
GeocodePickup ==
    /\ pc = "geocode_pickup"
    /\ \E resp \in Responses :
         LET g == geocode_nominatim(req.pickup, resp)
         IN  /\ trace' = Append(trace, "geocode_pickup")
             /\ start' = g.value
             /\ err' = g.raised
             /\ pc' = IF g.raised = "None" THEN "geocode_dropoff" ELSE raise_to
    /\ UNCHANGED <<creds, entry, args, req, use_mock, end, quotes, working, lyft_ret,
                   uber_ret, cheapest, result, out, prev, calls_left>>

\* ride_agent.py 123
GeocodeDropoff ==
    /\ pc = "geocode_dropoff"
    /\ \E resp \in Responses :
         LET g == geocode_nominatim(req.dropoff, resp)
         IN  /\ trace' = Append(trace, "geocode_dropoff")
             /\ end' = g.value
             /\ err' = g.raised
             /\ pc' = IF g.raised = "None" THEN "lyft" ELSE raise_to
    /\ UNCHANGED <<creds, entry, args, req, use_mock, start, quotes, working, lyft_ret,
                   uber_ret, cheapest, result, out, prev, calls_left>>

\* Mutant: the returned quotes are put in front of the list.
list_extend_front(list, items) == items \o list

\* list.extend
list_extend(list, items) == list \o items

\* ride_agent.py 126-127
CallLyft ==
    /\ pc = "lyft"
    /\ LET r == get_lyft_quotes(Val(start), Val(end))
       IN  /\ lyft_ret' = r
           /\ quotes' = list_extend(<<>>, r.quotes)
    /\ trace' = Append(trace, "get_lyft_quotes")
    /\ pc' = "uber"
    /\ UNCHANGED <<creds, entry, args, req, use_mock, start, end, working, uber_ret,
                   cheapest, result, err, out, prev, calls_left>>

\* ride_agent.py 128
CallUber ==
    /\ pc = "uber"
    /\ LET r == get_uber_quotes(Val(start), Val(end))
       IN  /\ uber_ret' = r
           /\ quotes' = list_extend(quotes, r.quotes)
    /\ trace' = Append(trace, "get_uber_quotes")
    /\ pc' = "fallback"
    /\ UNCHANGED <<creds, entry, args, req, use_mock, start, end, working, lyft_ret,
                   cheapest, result, err, out, prev, calls_left>>

\* ride_agent.py 126-127 with get_lyft_quotes replaced by a stub.
StubLyft ==
    /\ pc = "lyft"
    /\ \E qs \in SeqsUpTo(LYFT_STUB_QUOTES, MaxStub) :
         /\ lyft_ret' = [quotes |-> qs, via |-> "stub", raised |-> "None"]
         /\ quotes' = list_extend(<<>>, qs)
    /\ trace' = Append(trace, "get_lyft_quotes")
    /\ pc' = "uber"
    /\ UNCHANGED <<creds, entry, args, req, use_mock, start, end, working, uber_ret,
                   cheapest, result, err, out, prev, calls_left>>

\* ride_agent.py 128 with get_uber_quotes replaced by a stub.
StubUber ==
    /\ pc = "uber"
    /\ \E qs \in SeqsUpTo(UBER_STUB_QUOTES, MaxStub - Len(quotes)) :
         /\ uber_ret' = [quotes |-> qs, via |-> "stub", raised |-> "None"]
         /\ quotes' = list_extend(quotes, qs)
    /\ trace' = Append(trace, "get_uber_quotes")
    /\ pc' = "fallback"
    /\ UNCHANGED <<creds, entry, args, req, use_mock, start, end, working, lyft_ret,
                   cheapest, result, err, out, prev, calls_left>>

\* Mutant: the fallback is taken only when the list is empty.
should_fallback_if_empty(um, qs) == um /\ qs = <<>>

\* ride_agent.py 131
should_fallback(um, qs) == um /\ ~(\E i \in 1..Len(qs) : ~IsNone(qs[i].price_low))

\* ride_agent.py 131-132
Fallback ==
    /\ pc = "fallback"
    /\ working' = quotes
    /\ IF should_fallback(use_mock, quotes)
       THEN /\ quotes' = get_mock_quotes(req)
            /\ trace' = Append(trace, "get_mock_quotes")
       ELSE UNCHANGED <<quotes, trace>>
    /\ pc' = "cheapest"
    /\ UNCHANGED <<creds, entry, args, req, use_mock, start, end, lyft_ret, uber_ret,
                   cheapest, result, err, out, prev, calls_left>>

\* ride_agent.py 135
PickCheapest ==
    /\ pc = "cheapest"
    /\ cheapest' = pick_cheapest(quotes)
    /\ trace' = Append(trace, "pick_cheapest")
    /\ pc' = "return"
    /\ UNCHANGED <<creds, entry, args, req, use_mock, start, end, quotes, working,
                   lyft_ret, uber_ret, result, err, out, prev, calls_left>>

\* ride_agent.py 137
Return ==
    /\ pc = "return"
    /\ result' = Some(QuoteResult(req, quotes, cheapest))
    /\ pc' = IF entry = "api" THEN "done" ELSE "render"
    /\ UNCHANGED <<creds, entry, args, req, use_mock, start, end, quotes, working,
                   lyft_ret, uber_ret, cheapest, err, out, trace, prev, calls_left>>

\* ride_agent.py 190: main prints the result.
PrintResult ==
    /\ pc = "render"
    /\ entry = "cli"
    /\ out' = print_result(Val(result))
    /\ pc' = "done"
    /\ UNCHANGED <<creds, entry, args, req, use_mock, start, end, quotes, working,
                   lyft_ret, uber_ret, cheapest, result, err, trace, prev, calls_left>>

\* app.py 23-52: format_text renders and returns the body.
FormatText ==
    /\ pc = "render"
    /\ entry = "http"
    /\ out' = format_text_lines(Val(result))
    /\ pc' = "done"
    /\ UNCHANGED <<creds, entry, args, req, use_mock, start, end, quotes, working,
                   lyft_ret, uber_ret, cheapest, result, err, trace, prev, calls_left>>

\* ride_agent.py 191-192: main catches every exception and prints one line.
MainExcept ==
    /\ pc = "except"
    /\ out' = cli_error_lines(err)
    /\ pc' = "done"
    /\ UNCHANGED <<creds, entry, args, req, use_mock, start, end, quotes, working,
                   lyft_ret, uber_ret, cheapest, result, err, trace, prev, calls_left>>

Next ==
    \/ Main
    \/ RunText
    \/ ApiCall
    \/ GeocodePickup
    \/ GeocodeDropoff
    \/ CallLyft
    \/ CallUber
    \/ Fallback
    \/ PickCheapest
    \/ Return
    \/ PrintResult
    \/ FormatText
    \/ MainExcept

Spec == Init /\ [][Next]_vars

\* One invocation with both provider adapters replaced by stubs.
InitStub ==
    /\ creds = [LYFT_CLIENT_ID |-> "", LYFT_CLIENT_SECRET |-> "",
                UBER_BEARER_TOKEN |-> "", UBER_SERVER_TOKEN |-> ""]
    /\ pc = "idle"
    /\ entry = "-"
    /\ args = NoRequest
    /\ req = NoRequest
    /\ use_mock = TRUE
    /\ start = None
    /\ end = None
    /\ quotes = <<>>
    /\ working = <<>>
    /\ lyft_ret = NoCall
    /\ uber_ret = NoCall
    /\ cheapest = None
    /\ result = None
    /\ err = "None"
    /\ out = <<>>
    /\ trace = <<>>
    /\ prev = None
    /\ calls_left = 1

NextStub ==
    \/ Main
    \/ RunText
    \/ ApiCall
    \/ GeocodePickup
    \/ GeocodeDropoff
    \/ StubLyft
    \/ StubUber
    \/ Fallback
    \/ PickCheapest
    \/ Return
    \/ PrintResult
    \/ FormatText
    \/ MainExcept

SpecStub == InitStub /\ [][NextStub]_vars

\* get_mock_quotes on its own, over MOCK_NEEDS.
InitMock ==
    /\ creds = [LYFT_CLIENT_ID |-> "", LYFT_CLIENT_SECRET |-> "",
                UBER_BEARER_TOKEN |-> "", UBER_SERVER_TOKEN |-> ""]
    /\ pc = "mock_input"
    /\ entry = "-"
    /\ \E n \in MOCK_NEEDS :
         /\ args = RideRequest("Chicago O'Hare Airport", "Navy Pier, Chicago", n)
         /\ req = args
    /\ use_mock = TRUE
    /\ start = None
    /\ end = None
    /\ quotes = <<>>
    /\ working = <<>>
    /\ lyft_ret = NoCall
    /\ uber_ret = NoCall
    /\ cheapest = None
    /\ result = None
    /\ err = "None"
    /\ out = <<>>
    /\ trace = <<>>
    /\ prev = None
    /\ calls_left = 0

ApplyMock ==
    /\ pc = "mock_input"
    /\ quotes' = get_mock_quotes(req)
    /\ trace' = Append(trace, "get_mock_quotes")
    /\ pc' = "mock_output"
    /\ UNCHANGED <<creds, entry, args, req, use_mock, start, end, working, lyft_ret,
                   uber_ret, cheapest, result, err, out, prev, calls_left>>

NextMock == ApplyMock

SpecMock == InitMock /\ [][NextMock]_vars

----------------------------------------------------------------------------
(* Vocabulary of the properties *)

Priced(q) == ~IsNone(q.price_low)
PricedAt(qs) == {i \in 1..Len(qs) : Priced(qs[i])}
Low(q) == Val(q.price_low)

IsPrefix(s, t) == Len(s) <= Len(t) /\ SubSeq(t, 1, Len(s)) = s
Called(f) == f \in Range(trace)
Returned == ~IsNone(result)
Selected == pc \in {"return", "render"} \/ Returned
Decided == pc = "cheapest" \/ Selected

\* Built-in exception classes that are LookupError or a subclass of it.
LOOKUP_ERRORS == {"LookupError", "IndexError", "KeyError"}

MockUberX == Quote(S_mock, <<"U","b","e","r","X"," ","(","m","o","c","k",")">>,
                   Some(2250), Some(2400), Some(6), None)
MockLyft == Quote(S_mock, <<"L","y","f","t"," ","(","m","o","c","k",")">>,
                  Some(1975), Some(2300), Some(7), None)
MockUberXL == Quote(S_mock, <<"U","b","e","r","X"," ","X","L"," ","(","m","o","c","k",")">>,
                    Some(3250), Some(3600), Some(6), None)
MockLyftXL == Quote(S_mock, <<"L","y","f","t"," ","X","L"," ","(","m","o","c","k",")">>,
                    Some(2975), Some(3500), Some(7), None)

\* The claim's trigger: trimmed and lower-cased, one of the four words.
Triggers(n) ==
    str_lower(str_strip(n)) \in
        { <<"x","l">>, <<"6"," ","s","e","a","t","s">>,
          <<"6","-","s","e","a","t","s">>, <<"s","u","v">> }

----------------------------------------------------------------------------
\* C1: once pick_cheapest has run, cheapest is absent iff no quote is priced;
\* otherwise cheapest is the quote at the earliest position among those whose
\* price_low is the minimum over the priced quotes.
C1_CheapestSelection ==
    Selected =>
        LET P == PricedAt(quotes)
        IN  /\ IsNone(cheapest) <=> P = {}
            /\ P # {} =>
                 \E i \in P :
                    /\ cheapest = Some(quotes[i])
                    /\ \A j \in P : Low(quotes[i]) <= Low(quotes[j])
                    /\ \A j \in P : j < i => Low(quotes[j]) > Low(quotes[i])
            /\ Returned => Val(result).cheapest = cheapest /\ Val(result).quotes = quotes

\* Two different quotes tie for the minimum and the earlier one was chosen.
C1_Witness ==
    /\ Returned
    /\ \E i, j \in PricedAt(quotes) :
         /\ i < j
         /\ quotes[i] # quotes[j]
         /\ Low(quotes[i]) = Low(quotes[j])
         /\ \A k \in PricedAt(quotes) : Low(quotes[i]) <= Low(quotes[k])
         /\ \A k \in PricedAt(quotes) : k < i => Low(quotes[k]) > Low(quotes[i])
         /\ cheapest = Some(quotes[i])

\* C2: the result holds the two mock quotes exactly when use_mock_if_needed
\* is true and no quote of the working list is priced; otherwise it holds the
\* working list unchanged, price-less quotes included, and no mock quote.
C2_FallbackGating ==
    Decided =>
        LET W == lyft_ret.quotes \o uber_ret.quotes
            fb == use_mock /\ PricedAt(W) = {}
        IN  /\ working = W
            /\ fb => /\ Len(quotes) = 2
                     /\ \A i \in 1..2 : quotes[i].provider = S_mock
                     /\ Called("get_mock_quotes")
            /\ ~fb => /\ quotes = W
                      /\ \A i \in 1..Len(quotes) : quotes[i].provider # S_mock
                      /\ ~Called("get_mock_quotes")
            /\ Returned => Val(result).quotes = quotes

\* use_mock_if_needed is true, one quote is priced at 15.00 and another has no
\* price: the working list is returned as it is.
C2_Witness ==
    /\ Returned
    /\ use_mock
    /\ \E i, j \in 1..Len(working) : ~Priced(working[i]) /\ Priced(working[j]) /\ Low(working[j]) = 1500
    /\ Val(result).quotes = working
    /\ ~Called("get_mock_quotes")

\* C3 as stated: a geocoding failure calls no provider, returns no result and
\* surfaces as a LookupError.
C3_SurfacesAsLookupError ==
    err # "None" =>
        /\ err \in LOOKUP_ERRORS
        /\ ~Called("get_lyft_quotes") /\ ~Called("get_uber_quotes") /\ ~Called("get_mock_quotes")
        /\ ~Returned

\* C3 amended: a geocoding failure calls no provider and returns no result; what
\* surfaces is the exception the lookup raised, RuntimeError for an empty match
\* list and a requests exception for a failed call, none of them a LookupError.
C3_GeocodeFailFast ==
    err # "None" =>
        /\ err \in {"RuntimeError", "RequestException", "HTTPError"}
        /\ err \notin LOOKUP_ERRORS
        /\ trace \in {<<"geocode_pickup">>, <<"geocode_pickup", "geocode_dropoff">>}
        /\ lyft_ret = NoCall /\ uber_ret = NoCall
        /\ quotes = <<>> /\ IsNone(cheapest) /\ ~Returned
        /\ pc = (IF entry = "cli" THEN (IF out = <<>> THEN "except" ELSE "done") ELSE "failed")
        /\ out # <<>> => out = cli_error_lines(err)

\* The pickup lookup succeeded, the dropoff lookup found no match, and the
\* RuntimeError left get_best_ride.
C3_Witness ==
    /\ err = "RuntimeError"
    /\ trace = <<"geocode_pickup", "geocode_dropoff">>
    /\ ~IsNone(start) /\ IsNone(end)
    /\ entry = "api" /\ pc = "failed"

\* C4: get_mock_quotes returns UberX then Lyft; for a triggering vehicle_need
\* both are raised by 10.00 / 12.00 and renamed "... XL (mock)", for any other
\* value both carry the base values.
C4_MockQuotes ==
    pc = "mock_output" =>
        /\ Len(quotes) = 2
        /\ IF Triggers(req.vehicle_need)
           THEN /\ quotes = <<MockUberXL, MockLyftXL>>
                /\ \A i \in 1..2 :
                     /\ str_contains(quotes[i].ride_type,
                                     <<"X","L"," ","(","m","o","c","k",")">>)
                     /\ Low(quotes[i]) = Low(<<MockUberX, MockLyft>>[i]) + 1000
                     /\ Val(quotes[i].price_high)
                          = Val(<<MockUberX, MockLyft>>[i].price_high) + 1200
           ELSE quotes = <<MockUberX, MockLyft>>
        /\ req.vehicle_need \in { <<"X","L">>, <<"S","U","V">>, <<"6","-","S","E","A","T","S">>,
                                  <<"\n"," ","S","u","v"," ">>, <<"\t","x","L">> }
             => quotes[2] = MockLyftXL
        /\ req.vehicle_need \in { <<"c","h","e","a","p","e","s","t">>, <<"l","u","x">>,
                                  <<"b","l","a","c","k">>, <<"x"," ","l">>, <<>>,
                                  <<"6"," "," ","s","e","a","t","s">> }
             => quotes[2] = MockLyft

\* "\n Suv " is trimmed and lower-cased to "suv": the adjusted pair is returned.
C4_Witness ==
    /\ pc = "mock_output"
    /\ req.vehicle_need = <<"\n"," ","S","u","v"," ">>
    /\ quotes = <<MockUberXL, MockLyftXL>>

\* C5: with both adapters unconfigured and use_mock_if_needed true, a run whose
\* lookups succeed returns the two mock quotes, XL-adjusted only for a
\* triggering vehicle_need, and cheapest is the Lyft mock quote (19.75 / 29.75).
C5_UnconfiguredMock ==
    ( /\ Returned
      /\ use_mock
      /\ creds.LYFT_CLIENT_ID = "" \/ creds.LYFT_CLIENT_SECRET = ""
      /\ creds.UBER_BEARER_TOKEN = "" /\ creds.UBER_SERVER_TOKEN = "" )
    => LET r == Val(result)
       IN  /\ ~IsNone(start) /\ ~IsNone(end)
           /\ IF Triggers(args.vehicle_need)
              THEN r.quotes = <<MockUberXL, MockLyftXL>> /\ r.cheapest = Some(MockLyftXL)
              ELSE r.quotes = <<MockUberX, MockLyft>> /\ r.cheapest = Some(MockLyft)
           /\ Low(Val(r.cheapest)) = (IF Triggers(args.vehicle_need) THEN 2975 ELSE 1975)
           /\ args.vehicle_need \in {<<"X","L">>, <<"6","-","S","e","a","t","s">>}
                => Low(Val(r.cheapest)) = 2975
           /\ args.vehicle_need \in {<<"c","h","e","a","p","e","s","t">>, <<"l","u","x">>}
                => Low(Val(r.cheapest)) = 1975

\* No credentials, vehicle_need "XL" posted to the text endpoint: cheapest is
\* the adjusted Lyft mock quote.
C5_Witness ==
    /\ pc = "done" /\ entry = "http" /\ Returned
    /\ \A k \in DOMAIN creds : creds[k] = ""
    /\ args.vehicle_need = <<"X","L">>
    /\ Val(result).cheapest = Some(MockLyftXL)

\* A line of rendered output that lists a quote.
IsQuoteLine(l) == Len(l) >= 2 /\ l[1] = "-" /\ l[2] = " "

\* C6: a request to the text endpoint that has ended has ended with a
\* rendered result that lists quotes.
C6_TextEndpointAlwaysRenders ==
    (entry = "http" /\ pc \in {"done", "failed"}) =>
        /\ pc = "done"
        /\ err = "None"
        /\ \E i \in 1..Len(out) : IsQuoteLine(out[i])

\* Sections of a rendering, and what the two renderings may differ by.
LineKind(l) ==
    IF l = <<>> THEN "blank"
    ELSE IF IsQuoteLine(l) THEN "quote"
    ELSE IF l[1] = "Cheapest" \/ (Len(l) >= 3 /\ l[1] \in EMOJI /\ l[3] = "Cheapest") THEN "cheapest"
    ELSE IF l[1] = "Could" \/ (Len(l) >= 3 /\ l[1] \in EMOJI /\ l[3] = "Could") THEN "notice"
    ELSE "other"

Sections(lines) ==
    LET kinds == [i \in 1..Len(lines) |-> LineKind(lines[i])]
    IN  SelectSeq(kinds, LAMBDA k : k # "blank")

OfKind(lines, k) == SelectSeq(lines, LAMBDA l : LineKind(l) = k)

StripEmoji(l) ==
    IF Len(l) >= 2 /\ l[1] \in EMOJI /\ l[2] = " " THEN SubSeq(l, 3, Len(l)) ELSE l

Unspaced(l) == SelectSeq(l, LAMBDA t : t # " ")

\* C7 as stated: for a result with quotes, format_text and print_result emit
\* the same sections, one line per quote then the cheapest summary or the
\* no-cheapest notice, and the texts differ only by the emoji prefixes.
C7_SameRendering ==
    (Returned /\ Val(result).quotes # <<>>) =>
        LET r == Val(result)
            c == cli_body(r)
            h == http_body(r)
        IN  /\ Sections(h) = Sections(c)
            /\ Sections(c) = [i \in 1..Len(r.quotes) |-> "quote"]
                             \o <<IF IsNone(r.cheapest) THEN "notice" ELSE "cheapest">>
            /\ h = [i \in 1..Len(c) |-> StripEmoji(c[i])]

\* C7 amended: both renderings emit one line per quote in quotes order with the
\* same fields, equal up to blanks (print_result pads the ride type to 20
\* columns); when cheapest is present both end with the same summary line, the
\* CLI's emoji prefix apart; format_text also emits a "Quotes:" heading, and
\* when cheapest is absent only print_result emits the notice.
C7_RenderingsAgreeUpToLayout ==
    (Returned /\ Val(result).quotes # <<>>) =>
        LET r == Val(result)
            n == Len(r.quotes)
            c == cli_body(r)
            h == http_body(r)
            cq == OfKind(c, "quote")
            hq == OfKind(h, "quote")
        IN  /\ Len(cq) = n /\ Len(hq) = n
            /\ SubSeq(c, 1, n) = cq
            /\ h[1] = <<"Quotes:">> /\ SubSeq(h, 2, n + 1) = hq
            /\ \A i \in 1..n :
                 /\ Unspaced(cq[i]) = Unspaced(hq[i])
                 /\ str_contains(hq[i], r.quotes[i].ride_type)
                 /\ str_contains(hq[i], str_upper(r.quotes[i].provider))
                 /\ Priced(r.quotes[i]) => str_contains(hq[i], fmt_2f(Low(r.quotes[i])))
                 /\ ~Priced(r.quotes[i]) => str_contains(hq[i], <<"not", " ", "available">>)
            /\ ~IsNone(r.cheapest) =>
                 /\ Sections(c) = [i \in 1..n |-> "quote"] \o <<"cheapest">>
                 /\ Sections(h) = <<"other">> \o Sections(c)
                 /\ c[Len(c)][1] \in EMOJI
                 /\ StripEmoji(c[Len(c)]) = h[Len(h)]
                 /\ str_contains(h[Len(h)], fmt_2f(Low(Val(r.cheapest))))
            /\ IsNone(r.cheapest) =>
                 /\ Sections(c) = [i \in 1..n |-> "quote"] \o <<"notice">>
                 /\ Sections(h) = <<"other">> \o [i \in 1..n |-> "quote"]
            /\ (pc = "done" /\ entry = "http") => out = http_head(r) \o h
            /\ (pc = "done" /\ entry = "cli") => out = cli_head(r) \o c

\* The text endpoint rendered a priced and a price-less quote and a summary.
C7_Witness ==
    /\ pc = "done" /\ entry = "http" /\ Returned
    /\ \E i, j \in 1..Len(quotes) : Priced(quotes[i]) /\ ~Priced(quotes[j])
    /\ ~IsNone(cheapest)
    /\ Sections(out) = <<"other", "other", "other", "other", "other", "other">>
                       \o [i \in 1..Len(quotes) |-> "quote"] \o <<"cheapest">>

C9_AdaptersEmpty ==
    /\ Called("get_lyft_quotes") =>
         /\ lyft_ret.quotes = <<>>
         /\ lyft_ret.raised = "None"
         /\ lyft_ret.via = (IF creds.LYFT_CLIENT_ID # "" /\ creds.LYFT_CLIENT_SECRET # ""
                            THEN "configured" ELSE "unconfigured")
         /\ err = "None"
    /\ Called("get_uber_quotes") =>
         /\ uber_ret.quotes = <<>>
         /\ uber_ret.raised = "None"
         /\ uber_ret.via = (IF creds.UBER_BEARER_TOKEN # "" \/ creds.UBER_SERVER_TOKEN # ""
                            THEN "configured" ELSE "unconfigured")
         /\ err = "None"

\* Only the Lyft client id and only the Uber server token are set: Lyft is
\* unconfigured, Uber configured, both returned nothing.
C9_Witness ==
    /\ creds = [LYFT_CLIENT_ID |-> "set", LYFT_CLIENT_SECRET |-> "",
                UBER_BEARER_TOKEN |-> "", UBER_SERVER_TOKEN |-> "set"]
    /\ lyft_ret = [quotes |-> <<>>, via |-> "unconfigured", raised |-> "None"]
    /\ uber_ret = [quotes |-> <<>>, via |-> "configured", raised |-> "None"]
    /\ start # end

STEPS_WITH_MOCK ==
    <<"geocode_pickup", "geocode_dropoff", "get_lyft_quotes", "get_uber_quotes",
      "get_mock_quotes", "pick_cheapest">>
STEPS_WITHOUT_MOCK ==
    <<"geocode_pickup", "geocode_dropoff", "get_lyft_quotes", "get_uber_quotes",
      "pick_cheapest">>

\* C10: the calls of a run are a prefix of pickup lookup, dropoff lookup, Lyft,
\* Uber, (mock), selection, each at most once; a lookup that failed is the last
\* call; a later step runs only after the earlier ones succeeded; the working
\* list is Lyft's quotes followed by Uber's.
C10_FixedOrder ==
    /\ IsPrefix(trace, STEPS_WITH_MOCK) \/ IsPrefix(trace, STEPS_WITHOUT_MOCK)
    /\ Called("geocode_dropoff") => ~IsNone(start)
    /\ Called("get_lyft_quotes") => ~IsNone(start) /\ ~IsNone(end)
    /\ err # "None" => trace[Len(trace)] \in {"geocode_pickup", "geocode_dropoff"}
    /\ Returned => trace[Len(trace)] = "pick_cheapest"
    /\ pc = "uber" => quotes = lyft_ret.quotes
    /\ pc = "fallback" => quotes = lyft_ret.quotes \o uber_ret.quotes
    /\ Decided => working = lyft_ret.quotes \o uber_ret.quotes

\* Both stubbed adapters returned quotes, no fallback: five calls, in order.
C10_Witness ==
    /\ Returned
    /\ lyft_ret.quotes # <<>> /\ uber_ret.quotes # <<>>
    /\ trace = STEPS_WITHOUT_MOCK
    /\ quotes = lyft_ret.quotes \o uber_ret.quotes

====
